---- MODULE Spec2Model ----
(***************************************************************************)
(* Client-side resilience utilities of the document-dispatch console:      *)
(* RateLimiter, CircuitBreaker, retryWithBackoff (src/utils/rateLimiter.ts)*)
(* and the rate-limited message-send operations (src/services/api.ts).     *)
(*                                                                         *)
(* Eight specifications share one clock `now` (Date.now()):                 *)
(*   SpecRL   - one RateLimiter instance, calls of isAllowed on two keys   *)
(*   SpecCB   - one CircuitBreaker, interleaved execute calls              *)
(*   SpecSeq  - the same breaker, execute calls made one after another     *)
(*   SpecSend - messageAPI.send* : withRateLimit around retryWithBackoff   *)
(*   SpecRetry - one call of retryWithBackoff or of withRetry              *)
(*   SpecKeys - send calls of several users of one browser session         *)
(*   SpecAuth - AuthProvider, login, logout and the response interceptor   *)
(*   SpecForm - the Login page with its Captcha                            *)
(***************************************************************************)
EXTENDS Integers, Sequences, FiniteSets, TLC

(***************************************************************************)
(* Bounds of the model                                                     *)
(***************************************************************************)
\* RateLimiterConfig used by SpecRL (a small instance of the config record)
maxRequests == 2
windowMs == 3
\* last clock value explored by SpecRL / SpecCB (milliseconds)
MaxTime == 4
\* isAllowed calls followed per key since the key was last without entry
MaxRun == 4

\* CircuitBreaker constructor arguments used by SpecCB and SpecSeq
threshold == 2
resetTimeout == 2
timeout == 4
\* execute calls that can be in flight at the same time
NumSlots == 2

\* last clock value at which SpecSend starts a send or advances the clock
MaxSendTime == 40000
\* send calls admitted by the limiters in one behaviour of SpecSend or
\* SpecAuth
MaxSends == 3
\* requests that fail (any answer but 200) in one behaviour of SpecSend
MaxFailures == 3

\* last clock value at which SpecKeys advances the clock
MaxKeyTime == 70000

\* send calls made in one behaviour of SpecKeys
MaxKeyCalls == 4

\* largest maxRetries argument given to retryWithBackoff / withRetry in SpecRetry
MaxRetriesBound == 4
\* SpecAuth: backoff timers set by the sends of one behaviour
MaxAuthWaits == 1

\* messageRateLimiter and fileUploadRateLimiter (rateLimiter.ts:113-131) and
\* the retryWithBackoff arguments of messageAPI (api.ts:109-166)
messageMaxRequests == 5
messageWindowMs == 30000
fileUploadMaxRequests == 3
fileUploadWindowMs == 60000
\* the rounds of the loop of generateCaptcha and the maxLength of the
\* Captcha's input
codeLength == 5
maxLength == 5
singleMaxRetries == 3
singleBaseDelay == 1000
bulkMaxRetries == 2
bulkBaseDelay == 2000

Keys == {"k1", "k2"}
Slots == 1..NumSlots

VARIABLES
  now,        \* Date.now()
  limits,     \* RateLimiter.limits : Map<string, RateLimitEntry>
  recent,     \* history: recent[k][a] = number of isAllowed(k) = true at time now - a
  winAdmits,  \* history: isAllowed(k) = true since k's entry was last created
  run,        \* history: per key, the calls made since the key had no entry
  rlLast,     \* history: the last isAllowed call and what it saw
  cb,         \* CircuitBreaker: failureCount, lastFailureTime, state
  pc,         \* per execute call: "idle", or "running" while `await fn()` is pending
  probe,      \* history: the running call moved the breaker OPEN -> HALF_OPEN
  cbEvt,      \* history: the last step of an execute call
  trip,       \* history: the last failure that left failureCount >= threshold
  consec,     \* history: failed operations since the last successful one
  storage,    \* localStorage: the items 'token' and 'user'
  msgLimits,  \* messageRateLimiter.limits
  fileLimits, \* fileUploadRateLimiter.limits
  call,       \* the messageAPI.send* call in progress, or the last one made
  sends,      \* history: the number of send calls admitted so far
  failures,   \* history: the number of requests that have failed so far
  retry,      \* the retryWithBackoff / withRetry call in progress, or the last one
  passed,     \* history: per user, the send calls admitted in the window of their key
  counted,    \* history: per limiter key, the users whose calls were counted under it
  gate,       \* history: the last send call of SpecKeys, what its limiter saw, and
              \* the number n of calls so far
  auth,       \* AuthProvider and the requests of the page that are in flight
  form        \* the Login page: its Captcha and its own state

rlVars == <<limits, recent, winAdmits, run, rlLast>>
cbVars == <<cb, pc, probe, cbEvt, trip, consec>>
sendVars == <<storage, msgLimits, fileLimits, call, sends, failures>>
retryVars == <<retry>>
keyVars == <<passed, counted, gate>>
authVars == <<auth>>
formVars == <<form>>
pageVars == <<auth, form>>

(***************************************************************************)
(* RateLimiter                                                             *)
(***************************************************************************)
rlConfig == [maxRequests |-> maxRequests, windowMs |-> windowMs]

\* Map.set
MapSet(m, k, v) == [x \in (DOMAIN m) \cup {k} |-> IF x = k THEN v ELSE m[x]]

\* expired with the window taken to last one millisecond longer
expiredLate(t, entry) == t > entry.resetTime + 1

\* expired with the window taken to end at resetTime itself
expiredEarly(t, entry) == t >= entry.resetTime

\* `now > entry.resetTime`, the test of cleanup, isAllowed and the getters
expired(t, entry) == t > entry.resetTime

\* atLimit with `>` for `>=`: one admission too many
atLimitOffByOne(cfg, entry) == entry.count > cfg.maxRequests

\* `entry.count >= this.config.maxRequests`
atLimit(cfg, entry) == entry.count >= cfg.maxRequests

\* RateLimiter.cleanup: delete every entry whose resetTime has passed
cleanup(lim, t) ==
  [k \in {x \in DOMAIN lim : ~expired(t, lim[x])} |-> lim[k]]

\* isAllowed raising count also when it refuses
isAllowedCountingRefusals(cfg, lim, key, tc, t) ==
  LET swept == cleanup(lim, tc)
      first == [count |-> 1, resetTime |-> t + cfg.windowMs]
  IN  IF key \notin DOMAIN swept
        THEN [ok |-> TRUE, limits |-> MapSet(swept, key, first), fresh |-> TRUE]
      ELSE IF expired(t, swept[key])
        THEN [ok |-> TRUE, limits |-> MapSet(swept, key, first), fresh |-> TRUE]
      ELSE [ok |-> ~atLimit(cfg, swept[key]),
            limits |-> [swept EXCEPT ![key].count = @ + 1],
            fresh |-> FALSE]

\* isAllowed creating the entry of a new window with count 0
isAllowedFromZero(cfg, lim, key, tc, t) ==
  LET swept == cleanup(lim, tc)
      first == [count |-> 0, resetTime |-> t + cfg.windowMs]
  IN  IF key \notin DOMAIN swept
        THEN [ok |-> TRUE, limits |-> MapSet(swept, key, first), fresh |-> TRUE]
      ELSE IF expired(t, swept[key])
        THEN [ok |-> TRUE, limits |-> MapSet(swept, key, first), fresh |-> TRUE]
      ELSE IF atLimit(cfg, swept[key])
        THEN [ok |-> FALSE, limits |-> swept, fresh |-> FALSE]
      ELSE [ok |-> TRUE,
            limits |-> [swept EXCEPT ![key].count = @ + 1],
            fresh |-> FALSE]

\* isAllowed starting a new window of count maxRequests when it refuses
isAllowedExtendingWindow(cfg, lim, key, tc, t) ==
  LET swept == cleanup(lim, tc)
      first == [count |-> 1, resetTime |-> t + cfg.windowMs]
  IN  IF key \notin DOMAIN swept
        THEN [ok |-> TRUE, limits |-> MapSet(swept, key, first), fresh |-> TRUE]
      ELSE IF expired(t, swept[key])
        THEN [ok |-> TRUE, limits |-> MapSet(swept, key, first), fresh |-> TRUE]
      ELSE IF atLimit(cfg, swept[key])
        THEN [ok |-> FALSE,
              limits |-> [swept EXCEPT ![key].resetTime = t + cfg.windowMs],
              fresh |-> FALSE]
      ELSE [ok |-> TRUE,
            limits |-> [swept EXCEPT ![key].count = @ + 1],
            fresh |-> FALSE]

\* RateLimiter.isAllowed: the value returned (ok), the map afterwards
\* (limits) and whether the call created the key's entry (fresh). The method
\* reads the clock twice: tc is the Date.now() of cleanup(), t the Date.now()
\* of isAllowed itself, tc <= t
isAllowed(cfg, lim, key, tc, t) ==
  LET swept == cleanup(lim, tc)
      first == [count |-> 1, resetTime |-> t + cfg.windowMs]
  IN  IF key \notin DOMAIN swept
        THEN [ok |-> TRUE, limits |-> MapSet(swept, key, first), fresh |-> TRUE]
      ELSE IF expired(t, swept[key])
        THEN [ok |-> TRUE, limits |-> MapSet(swept, key, first), fresh |-> TRUE]
      ELSE IF atLimit(cfg, swept[key])
        THEN [ok |-> FALSE, limits |-> swept, fresh |-> FALSE]
      ELSE [ok |-> TRUE,
            limits |-> [swept EXCEPT ![key].count = @ + 1],
            fresh |-> FALSE]

\* RateLimiter.getRemainingTime
getRemainingTime(lim, key, t) ==
  IF key \notin DOMAIN lim THEN 0
  ELSE IF expired(t, lim[key]) THEN 0
  ELSE lim[key].resetTime - t

\* getRemainingRequests without the test `now > entry.resetTime`
getRemainingRequestsOfStaleEntry(cfg, lim, key, t) ==
  IF key \notin DOMAIN lim THEN cfg.maxRequests
  ELSE IF cfg.maxRequests - lim[key].count > 0
    THEN cfg.maxRequests - lim[key].count
  ELSE 0

\* RateLimiter.getRemainingRequests
getRemainingRequests(cfg, lim, key, t) ==
  IF key \notin DOMAIN lim THEN cfg.maxRequests
  ELSE IF expired(t, lim[key]) THEN cfg.maxRequests
  ELSE IF cfg.maxRequests - lim[key].count > 0
    THEN cfg.maxRequests - lim[key].count
  ELSE 0

\* the values Date.now() may have had in cleanup() when it is t in isAllowed
\* and `last` was the clock of the event before: t, or one tick less
SweepTimes(last, t) == {tc \in {t - 1, t} : tc >= 0 /\ tc >= last}

\* the values Date.now() may have in getRemainingTime() when it was t in
\* isAllowed: t, or one tick more
ReadTimes(t) == {t, t + 1}

NoCall == [key |-> "none", t |-> -1, ok |-> FALSE, fresh |-> FALSE,
           idx |-> 0, t0 |-> -1, prevOpen |-> -1, prevT |-> -1,
           prevAdmits |-> 0, count |-> 0]

InitRL ==
  /\ limits = [k \in {} |-> 0]
  /\ recent = [k \in Keys |-> [a \in 0..(windowMs - 1) |-> 0]]
  /\ winAdmits = [k \in Keys |-> 0]
  /\ run = [k \in Keys |-> [t0 |-> -1, n |-> 0, openT |-> -1, lastT |-> -1]]
  /\ rlLast = NoCall

\* one call rateLimiter.isAllowed(args) with getKey(args) = key; now is the
\* clock isAllowed reads, tc the clock its cleanup() read before
CallIsAllowed(key, tc) ==
  LET r == isAllowed(rlConfig, limits, key, tc, now)
      \* the calls of this key since it was last without an entry: a run
      \* starts when the key is not in the map or the run's window is over
      newRun == key \notin DOMAIN limits \/ run[key].t0 < 0
                  \/ now > run[key].t0 + windowMs
      g == run[key]
      g2 == [t0 |-> IF newRun THEN now ELSE g.t0,
             n |-> IF newRun THEN 1 ELSE g.n + 1,
             openT |-> IF r.fresh THEN now ELSE g.openT,
             lastT |-> now]
  IN  /\ newRun \/ run[key].n < MaxRun
      /\ tc \in SweepTimes(rlLast.t, now)
      /\ limits' = r.limits
      /\ recent' = IF r.ok THEN [recent EXCEPT ![key][0] = @ + 1] ELSE recent
      /\ winAdmits' = [winAdmits EXCEPT ![key] =
                         IF r.fresh THEN 1 ELSE IF r.ok THEN @ + 1 ELSE @]
      /\ run' = [run EXCEPT ![key] = g2]
      /\ rlLast' = [key |-> key, t |-> now, ok |-> r.ok, fresh |-> r.fresh,
                    idx |-> g2.n, t0 |-> g2.t0,
                    prevOpen |-> g.openT, prevT |-> g.lastT,
                    prevAdmits |-> winAdmits[key],
                    count |-> r.limits[key].count]
      /\ UNCHANGED <<now, cbVars, sendVars, retryVars, keyVars, pageVars>>

\* a call rateLimiter.getRemainingTime(args) and a call
\* rateLimiter.getRemainingRequests(args) with getKey(args) = key: both read
\* this.limits.get(key) and Date.now() and write nothing
CallGetters(key) ==
  /\ getRemainingTime(limits, key, now) \in 0..windowMs
  /\ getRemainingRequests(rlConfig, limits, key, now) \in 0..maxRequests
  /\ UNCHANGED <<now, rlVars, cbVars, sendVars, retryVars, keyVars, pageVars>>

\* the clock advances between calls
Tick ==
  /\ now < MaxTime
  /\ now' = now + 1
  /\ recent' = [k \in Keys |->
                 [a \in 0..(windowMs - 1) |-> IF a = 0 THEN 0 ELSE recent[k][a - 1]]]
  /\ UNCHANGED <<limits, winAdmits, run, rlLast, cbVars, sendVars, retryVars, keyVars, pageVars>>

(***************************************************************************)
(* CircuitBreaker                                                          *)
(***************************************************************************)
\* resetElapsed with `>=` for `>`: the probe is allowed at resetTimeout itself
resetElapsedAtTimeout(t, lastFailure) == t - lastFailure >= resetTimeout

\* resetElapsed comparing with the `timeout` field instead of resetTimeout
resetElapsedOpenTimeout(t, lastFailure) == t - lastFailure > timeout

\* `Date.now() - this.lastFailureTime > this.resetTimeout`
resetElapsed(t, lastFailure) == t - lastFailure > resetTimeout

\* CircuitBreaker.execute up to `await fn()`: the state it leaves and whether
\* fn is invoked (otherwise 'Circuit breaker is OPEN' is thrown)
execute(b, t) ==
  IF b.state = "OPEN"
    THEN IF resetElapsed(t, b.lastFailureTime)
           THEN [cb |-> [b EXCEPT !.state = "HALF_OPEN"], invoke |-> TRUE]
           ELSE [cb |-> b, invoke |-> FALSE]
    ELSE [cb |-> b, invoke |-> TRUE]

\* onSuccess without `this.failureCount = 0`
onSuccessKeepingCount(b) == [b EXCEPT !.state = "CLOSED"]

\* CircuitBreaker.onSuccess
onSuccess(b) == [b EXCEPT !.failureCount = 0, !.state = "CLOSED"]

\* CircuitBreaker.onFailure at time t
onFailure(b, t) ==
  [failureCount |-> b.failureCount + 1,
   lastFailureTime |-> t,
   state |-> IF b.failureCount + 1 >= threshold THEN "OPEN" ELSE b.state]

NoEvt == [kind |-> "none", slot |-> 0, t |-> -1, probe |-> FALSE,
          probePending |-> FALSE,
          pre |-> [failureCount |-> 0, lastFailureTime |-> 0, state |-> "CLOSED"]]

InitCB ==
  /\ cb = [failureCount |-> 0, lastFailureTime |-> 0, state |-> "CLOSED"]
  /\ pc = [c \in Slots |-> "idle"]
  /\ probe = [c \in Slots |-> FALSE]
  /\ cbEvt = NoEvt
  /\ trip = [t |-> -1, started |-> FALSE]
  /\ consec = 0

\* a call of execute(fn): the OPEN test and, unless it throws, the call fn()
Execute(c) ==
  LET r == execute(cb, now)
      isProbe == r.invoke /\ cb.state = "OPEN"
  IN  /\ pc[c] = "idle"
      /\ cb' = r.cb
      /\ pc' = IF r.invoke THEN [pc EXCEPT ![c] = "running"] ELSE pc
      /\ probe' = IF r.invoke THEN [probe EXCEPT ![c] = isProbe] ELSE probe
      /\ cbEvt' = [kind |-> IF r.invoke THEN "invoke" ELSE "reject",
                   slot |-> c, t |-> now, probe |-> isProbe,
                   probePending |-> \E p \in Slots : pc[p] = "running" /\ probe[p],
                   pre |-> cb]
      /\ trip' = IF r.invoke /\ trip.t >= 0 /\ now - trip.t <= resetTimeout
                   THEN [trip EXCEPT !.started = TRUE] ELSE trip
      /\ UNCHANGED <<now, consec, rlVars, sendVars, retryVars, keyVars, pageVars>>

\* fn() resolves: onSuccess
Succeed(c) ==
  /\ pc[c] = "running"
  /\ cb' = onSuccess(cb)
  /\ pc' = [pc EXCEPT ![c] = "idle"]
  /\ probe' = [probe EXCEPT ![c] = FALSE]
  /\ cbEvt' = [kind |-> "success", slot |-> c, t |-> now, probe |-> probe[c],
               probePending |-> FALSE, pre |-> cb]
  /\ consec' = 0
  /\ UNCHANGED <<now, trip, rlVars, sendVars, retryVars, keyVars, pageVars>>

\* fn() rejects: onFailure
Fail(c) ==
  /\ pc[c] = "running"
  /\ cb' = onFailure(cb, now)
  /\ pc' = [pc EXCEPT ![c] = "idle"]
  /\ probe' = [probe EXCEPT ![c] = FALSE]
  /\ cbEvt' = [kind |-> "failure", slot |-> c, t |-> now, probe |-> probe[c],
               probePending |-> FALSE, pre |-> cb]
  /\ consec' = consec + 1
  /\ trip' = IF cb.failureCount + 1 >= threshold
               THEN [t |-> now, started |-> FALSE] ELSE trip
  /\ UNCHANGED <<now, rlVars, sendVars, retryVars, keyVars, pageVars>>

\* execute called while no other execute call is pending
ExecuteAlone(c) ==
  /\ \A d \in Slots : pc[d] = "idle"
  /\ Execute(c)

(***************************************************************************)
(* messageAPI: withRateLimit(fn, limiter), fn = retryWithBackoff(api.post) *)
(***************************************************************************)
Ops == {"single", "bulk", "bulkDb"}
\* the users whose session localStorage may hold when the module is loaded
Users == {"u1"}
\* what the backend answers to one request; 0 stands for no response at all
Statuses == {0, 200, 400, 401, 403, 404, 422, 429, 500}
\* the answers the spec calls client errors (Validation/Auth/AuthZ/NotFound)
ClientErrors == {400, 401, 403, 404, 422}
\* Math.random() * 1000, in whole milliseconds
Jitters == {0, 999}
\* clock steps between the events of SpecSend
Steps == {30001}

messageConfig == [maxRequests |-> messageMaxRequests, windowMs |-> messageWindowMs]
fileUploadConfig ==
  [maxRequests |-> fileUploadMaxRequests, windowMs |-> fileUploadWindowMs]

\* JSON.parse(localStorage.getItem('user')).userId : the stored object is a
\* User (types/index.ts), which has `_id` and no `userId` property
userIdOf(user) == IF user = "none" THEN "anonymous" ELSE "undefined"

\* messageRateLimiter.keyGenerator: args[0] is the request object
messageKey(user) == <<userIdOf(user), "[object Object]">>

\* fileUploadRateLimiter.keyGenerator
fileUploadKey(user) == <<userIdOf(user), "file-upload">>

maxRetriesOf(op) == IF op = "single" THEN singleMaxRetries ELSE bulkMaxRetries
baseDelayOf(op) == IF op = "single" THEN singleBaseDelay ELSE bulkBaseDelay

RECURSIVE Pow2(_)
Pow2(n) == IF n <= 0 THEN 1 ELSE 2 * Pow2(n - 1)

\* Math.ceil(remainingTime / 1000)
CeilSeconds(ms) == (ms + 999) \div 1000

\* withRateLimit without the throw: the refusal is computed, fn is called anyway
withRateLimitNoThrow(cfg, lim, key, tc, t, tr) ==
  LET r == isAllowed(cfg, lim, key, tc, t)
  IN  [limits |-> r.limits, callFn |-> TRUE,
       seconds |-> CeilSeconds(getRemainingTime(r.limits, key, tr))]

\* withRateLimit: the limiter map afterwards, whether fn(...args) is called,
\* and the seconds named in the error thrown otherwise; tc and t are the two
\* clock reads of isAllowed, tr the clock getRemainingTime reads after a
\* refusal
withRateLimit(cfg, lim, key, tc, t, tr) ==
  LET r == isAllowed(cfg, lim, key, tc, t)
  IN  IF ~r.ok
        THEN [limits |-> r.limits, callFn |-> FALSE,
              seconds |-> CeilSeconds(getRemainingTime(r.limits, key, tr))]
        ELSE [limits |-> r.limits, callFn |-> TRUE, seconds |-> 0]

\* retryWithBackoff rethrowing one attempt late: maxRetries + 1 invocations
retryWithBackoffExtraAttempt(attempt, maxRetries, baseDelay, jitter) ==
  IF attempt = maxRetries + 1
    THEN [throw |-> TRUE, delay |-> 0]
    ELSE [throw |-> FALSE, delay |-> baseDelay * Pow2(attempt - 1) + jitter]

\* retryWithBackoff without `if (attempt === maxRetries) throw lastError`
retryWithBackoffNoRethrow(attempt, maxRetries, baseDelay, jitter) ==
  [throw |-> FALSE, delay |-> baseDelay * Pow2(attempt - 1) + jitter]

\* retryWithBackoff with the linear delay of withRetry, baseDelay * attempt
retryWithBackoffLinear(attempt, maxRetries, baseDelay, jitter) ==
  IF attempt = maxRetries
    THEN [throw |-> TRUE, delay |-> 0]
    ELSE [throw |-> FALSE, delay |-> baseDelay * attempt + jitter]

\* retryWithBackoff, the catch block of attempt number `attempt`: rethrow on
\* the last attempt, otherwise the delay before the next one
retryWithBackoff(attempt, maxRetries, baseDelay, jitter) ==
  IF attempt = maxRetries
    THEN [throw |-> TRUE, delay |-> 0]
    ELSE [throw |-> FALSE, delay |-> baseDelay * Pow2(attempt - 1) + jitter]

\* handleApiError: the error class the response interceptor turns an answer
\* into (retryWithBackoff does not look at it)
handleApiError(status) ==
  CASE status = 0 -> "NetworkError"
    [] status \in {400, 422} -> "ValidationError"
    [] status = 401 -> "AuthenticationError"
    [] status = 403 -> "AuthorizationError"
    [] status = 404 -> "NotFoundError"
    [] status \in {500, 502, 503, 504} -> "ServerError"
    [] OTHER -> "AppError"

\* handleApiError's effect on localStorage: case 401 removes the token and
\* the user; response is error.response.status, 0 without a response
handleApiErrorStorage(st, response) ==
  IF response = 401 THEN [token |-> "none", user |-> "none"] ELSE st

\* the response interceptor's effect on localStorage: a 401 from an endpoint
\* other than /auth/login removes the token and the user
interceptStorage(st, status) ==
  IF status = 401 THEN [token |-> "none", user |-> "none"] ELSE st

\* entry.count of the key's running window, 0 when the key has no entry or
\* its window has expired
liveCount(lim, key, t) ==
  IF key \in DOMAIN lim /\ ~expired(t, lim[key]) THEN lim[key].count ELSE 0

NoSend == [op |-> "none", pc |-> "idle", allowed |-> TRUE,
           key |-> <<"none", "none">>, before |-> 0,
           attempt |-> 0, requests |-> 0, failed |-> 0,
           fnCalls |-> 0, formData |-> FALSE, firstClientError |-> FALSE,
           delay |-> 0, ticked |-> FALSE,
           result |-> "none", seconds |-> 0]

InitSend ==
  /\ storage \in {[token |-> u, user |-> u] : u \in Users \cup {"none"}}
  /\ msgLimits = [k \in {} |-> 0]
  /\ fileLimits = [k \in {} |-> 0]
  /\ call = NoSend
  /\ sends = 0
  /\ failures = 0

\* a call messageAPI.sendSingleDocument / sendBulkDocument / sendBulkDatabasePDF:
\* the limiter test of withRateLimit and, when admitted, fn up to the first
\* api.post of retryWithBackoff; now is the clock isAllowed reads, tc the
\* clock that cleanup() read before it (one tick before now when the clock has
\* advanced since the last clock read) and tr the clock getRemainingTime
\* reads after a refusal, now or one tick later
SendCall(op, tc, tr) ==
  LET single == op = "single"
      \* what rateLimiter.isAllowed(args) returns inside withRateLimit
      allowed == IF single
                   THEN isAllowed(messageConfig, msgLimits,
                                  messageKey(storage.user), tc, now).ok
                   ELSE isAllowed(fileUploadConfig, fileLimits,
                                  fileUploadKey(storage.user), tc, now).ok
      w == IF single
             THEN withRateLimit(messageConfig, msgLimits,
                                messageKey(storage.user), tc, now, tr)
             ELSE withRateLimit(fileUploadConfig, fileLimits,
                                fileUploadKey(storage.user), tc, now, tr)
      \* history: the key of the call and its count before the call
      key == IF single THEN messageKey(storage.user) ELSE fileUploadKey(storage.user)
      before == liveCount(IF single THEN msgLimits ELSE fileLimits, key, now)
  IN  /\ call.pc \in {"idle", "done"}
      /\ now <= MaxSendTime
      /\ tc \in SweepTimes(IF call.ticked THEN -1 ELSE now, now)
      /\ tr \in ReadTimes(now)
      /\ allowed => sends < MaxSends
      /\ sends' = IF allowed THEN sends + 1 ELSE sends
      /\ msgLimits' = IF single THEN w.limits ELSE msgLimits
      /\ fileLimits' = IF single THEN fileLimits ELSE w.limits
      /\ call' = IF w.callFn
                   THEN [NoSend EXCEPT !.op = op, !.pc = "awaiting",
                                       !.key = key, !.before = before,
                                       !.allowed = allowed, !.attempt = 1,
                                       !.requests = 1, !.fnCalls = 1,
                                       !.formData = TRUE]
                   ELSE [NoSend EXCEPT !.op = op, !.pc = "done",
                                       !.key = key, !.before = before,
                                       !.allowed = allowed,
                                       !.result = "rateLimited",
                                       !.seconds = w.seconds]
      /\ UNCHANGED <<now, storage, failures, rlVars, cbVars, retryVars, keyVars, pageVars>>

\* the backend answers the pending api.post (or the request fails without an
\* answer): the response interceptor, which for a 401 also sets
\* window.location.href = '/login' (auth.redirecting), then
\* retryWithBackoff's try / catch
Respond(status, jitter) ==
  LET r == retryWithBackoff(call.attempt, maxRetriesOf(call.op),
                            baseDelayOf(call.op), jitter)
      seen == [call EXCEPT !.firstClientError =
                 IF call.attempt = 1 THEN status \in ClientErrors ELSE @,
                           !.failed = IF status = 200 THEN @ ELSE @ + 1]
  IN  /\ call.pc = "awaiting"
      /\ status = 200 \/ failures < MaxFailures
      /\ failures' = IF status = 200 THEN failures ELSE failures + 1
      /\ storage' = IF status = 200 THEN storage ELSE interceptStorage(storage, status)
      /\ auth' = [auth EXCEPT !.redirecting = @ \/ status = 401]
      /\ call' = IF status = 200
                   THEN [seen EXCEPT !.pc = "done", !.result = "resolved"]
                 ELSE IF r.throw
                   THEN [seen EXCEPT !.pc = "done", !.result = "rejected"]
                 ELSE [seen EXCEPT !.pc = "backoff", !.delay = r.delay]
      /\ UNCHANGED <<now, msgLimits, fileLimits, sends, rlVars, cbVars, retryVars, keyVars, formVars>>

\* the backoff timer fires after `delay`: the next attempt of retryWithBackoff
\* posts again
BackoffElapsed ==
  /\ call.pc = "backoff"
  /\ now' = now + call.delay
  /\ call' = [call EXCEPT !.pc = "awaiting", !.attempt = @ + 1,
                          !.requests = @ + 1, !.delay = 0, !.ticked = FALSE]
  /\ UNCHANGED <<storage, msgLimits, fileLimits, sends, failures, rlVars, cbVars, retryVars, keyVars, pageVars>>

\* time passes between the events of a send (the backoff timer has its own
\* step); call.ticked: the clock has advanced since it was last read
Advance(d) ==
  /\ call.pc # "backoff"
  /\ now + d <= MaxSendTime
  /\ now' = now + d
  /\ call' = [call EXCEPT !.ticked = TRUE]
  /\ UNCHANGED <<storage, msgLimits, fileLimits, sends, failures,
                 rlVars, cbVars, retryVars, keyVars, pageVars>>

(***************************************************************************)
(* retryWithBackoff (rateLimiter.ts) and withRetry (errorHandler)           *)
(***************************************************************************)
RetryFns == {"retryWithBackoff", "withRetry"}
\* the baseDelay / delay argument, in milliseconds
BaseDelays == {100, 1000}
\* the status axios got for a failed request; 0 stands for no response at all
ErrorStatuses == {0, 400, 401, 403, 404, 409, 422, 429, 500}
\* the error classes the spec says withRetry never retries
ClientErrorClasses ==
  {"AuthenticationError", "AuthorizationError", "ValidationError", "NotFoundError"}

\* the `status` the AppError classes pass to super(); AppError itself is
\* constructed with the status of the response
statusOfClass(class, status) ==
  CASE class = "NetworkError" -> 0
    [] class = "ValidationError" -> 400
    [] class = "AuthenticationError" -> 401
    [] class = "AuthorizationError" -> 403
    [] class = "NotFoundError" -> 404
    [] class = "ServerError" -> 500
    [] OTHER -> status

\* an error as axios raises it: error.response.status is `response` (0: the
\* error has no `response` property), and it is no AppError
AxiosError(s) == [class |-> "AxiosError", response |-> s, status |-> s]

\* handleApiError(error) as an object: it reads error.response only, so an
\* error without that property becomes a NetworkError with status 0
AppErrorOf(error) ==
  [class |-> handleApiError(error.response),
   response |-> 0,
   status |-> statusOfClass(handleApiError(error.response), error.response)]

\* what the operation given to withRetry / retryWithBackoff may reject with:
\* the error axios raises, or the AppError the response interceptor of api.ts
\* has already made of it (`Promise.reject(handledError)`)
Thrown ==
  {AxiosError(s) : s \in ErrorStatuses}
    \cup {AppErrorOf(AxiosError(s)) : s \in ErrorStatuses}

\* the `Don't retry certain errors` test of withRetry on lastError
noRetry(lastError) ==
  \/ lastError.class \in ClientErrorClasses
  \/ (lastError.status # 0 /\ lastError.status >= 400 /\ lastError.status < 500)

\* withRetry, the catch block of attempt number `attempt` for the caught
\* `error`: lastError, whether it is thrown, and the wait before the next try
withRetry(attempt, maxRetries, delay, error) ==
  LET lastError == AppErrorOf(error)
  IN  [lastError |-> lastError,
       throw |-> noRetry(lastError) \/ attempt = maxRetries,
       delay |-> delay * attempt]

NoError == [class |-> "none", response |-> 0, status |-> 0]

NoRetry == [fn |-> "none", pc |-> "idle", maxRetries |-> 0, baseDelay |-> 0,
            attempt |-> 0, invoked |-> 0, first |-> NoError,
            lastError |-> NoError, lastFrom |-> 0, delay |-> 0, waits |-> <<>>,
            result |-> "none", value |-> 0]

InitRetry == retry = NoRetry

\* a call retryWithBackoff(fn, m, d) or withRetry(operation, m, d): the loop
\* starts with attempt = 1 and invokes the operation
RetryStart(f, m, d) ==
  /\ retry.pc = "idle"
  /\ retry' = [NoRetry EXCEPT !.fn = f, !.pc = "calling", !.maxRetries = m,
                              !.baseDelay = d, !.attempt = 1, !.invoked = 1]
  /\ UNCHANGED <<now, rlVars, cbVars, sendVars, keyVars, pageVars>>

\* the try block with `await fn()` for `return await fn()`: the value of a
\* successful invocation is dropped and the loop goes on to its last attempt
awaitFnNoReturn(r) ==
  IF r.attempt = r.maxRetries
    THEN [r EXCEPT !.pc = "done", !.result = "resolved", !.value = r.invoked]
    ELSE [r EXCEPT !.attempt = @ + 1, !.invoked = @ + 1]

\* the try block, `return await fn()`, when fn resolves: the call ends with
\* the value of this invocation (values are named after their invocation)
returnAwaitFn(r) ==
  [r EXCEPT !.pc = "done", !.result = "resolved", !.value = r.invoked]

\* the pending invocation resolves
RetryResolve ==
  /\ retry.pc = "calling"
  /\ retry' = returnAwaitFn(retry)
  /\ UNCHANGED <<now, rlVars, cbVars, sendVars, keyVars, pageVars>>

\* the pending invocation rejects with error e: the catch block; that of
\* withRetry calls handleApiError(error), which clears the session for an
\* axios error with status 401
RetryReject(e, jitter) ==
  LET b == retryWithBackoff(retry.attempt, retry.maxRetries, retry.baseDelay, jitter)
      w == withRetry(retry.attempt, retry.maxRetries, retry.baseDelay, e)
      backoff == retry.fn = "retryWithBackoff"
      throw == IF backoff THEN b.throw ELSE w.throw
      seen == [retry EXCEPT !.first = IF retry.invoked = 1 THEN e ELSE @,
                            !.lastError = IF backoff THEN e ELSE w.lastError,
                            !.lastFrom = retry.invoked]
  IN  /\ retry.pc = "calling"
      /\ retry' = IF throw
                    THEN [seen EXCEPT !.pc = "done", !.result = "rejected"]
                    ELSE [seen EXCEPT !.pc = "waiting",
                                      !.delay = IF backoff THEN b.delay ELSE w.delay]
      /\ storage' = IF backoff THEN storage
                    ELSE handleApiErrorStorage(storage, e.response)
      /\ UNCHANGED <<now, msgLimits, fileLimits, call, sends, failures,
                     rlVars, cbVars, keyVars, pageVars>>

\* the setTimeout of the catch block fires: the next iteration of the loop
\* invokes the operation again
RetryWake ==
  /\ retry.pc = "waiting"
  /\ now' = now + retry.delay
  /\ retry' = [retry EXCEPT !.pc = "calling", !.attempt = @ + 1,
                            !.invoked = @ + 1, !.delay = 0,
                            !.waits = Append(@, retry.delay)]
  /\ UNCHANGED <<rlVars, cbVars, sendVars, keyVars, pageVars>>

(***************************************************************************)
(* The limiter keys of the send operations over logins and logouts         *)
(***************************************************************************)
\* the accounts that log in during one session of the page; each stands for
\* the User object (types/index.ts) AuthContext stores under 'user'
Accounts == {"u1", "u2"}
\* who a send call is made by: an account, or nobody ("none")
Identities == Accounts \cup {"none"}
Kinds == {"single", "bulk"}
kindOf(op) == IF op = "single" THEN "single" ELSE "bulk"

\* getKey(args) of the limiter that gates op, for the stored user
keyOf(op, user) == IF op = "single" THEN messageKey(user) ELSE fileUploadKey(user)

AllKeys == {keyOf(op, u) : op \in Ops, u \in Identities}

NoGate == [op |-> "none", user |-> "none", key |-> <<"none", "none">>,
           ok |-> FALSE, live |-> FALSE, prior |-> 0, n |-> 0,
           ticked |-> FALSE]

InitKeys ==
  /\ passed = [u \in Identities |-> [k \in Kinds |-> 0]]
  /\ counted = [k \in AllKeys |-> {}]
  /\ gate = NoGate

\* AuthContext.login resolves for account u: token and user are stored
Login(u) ==
  /\ storage' = [token |-> u, user |-> u]
  /\ UNCHANGED <<now, msgLimits, fileLimits, call, sends, failures,
                 rlVars, cbVars, retryVars, keyVars, pageVars>>

\* AuthContext.logout: token and user are removed
Logout ==
  /\ storage' = [token |-> "none", user |-> "none"]
  /\ UNCHANGED <<now, msgLimits, fileLimits, call, sends, failures,
                 rlVars, cbVars, retryVars, keyVars, pageVars>>

\* a call of messageAPI.sendSingleDocument / sendBulkDocument /
\* sendBulkDatabasePDF by whoever is stored, none of its requests being
\* answered 401: the limiter test of withRateLimit is all that changes state
\* (the seconds of a refusal are not kept); tc is the clock that cleanup() read
KeyedSend(op, tc) ==
  LET single == op = "single"
      u == storage.user
      key == keyOf(op, u)
      lim == IF single THEN msgLimits ELSE fileLimits
      cfg == IF single THEN messageConfig ELSE fileUploadConfig
      w == withRateLimit(cfg, lim, key, tc, now, now)
      r == isAllowed(cfg, lim, key, tc, now)
      kind == kindOf(op)
      \* a new window of the key starts the count of all its users again
      reopened == [v \in Identities |->
                     IF keyOf(op, v) = key
                       THEN [passed[v] EXCEPT ![kind] = IF v = u THEN 1 ELSE 0]
                       ELSE passed[v]]
  IN  /\ gate.n < MaxKeyCalls
      /\ tc \in SweepTimes(IF gate.ticked THEN -1 ELSE now, now)
      /\ msgLimits' = IF single THEN w.limits ELSE msgLimits
      /\ fileLimits' = IF single THEN fileLimits ELSE w.limits
      /\ passed' = IF r.fresh THEN reopened
                   ELSE IF w.callFn THEN [passed EXCEPT ![u][kind] = @ + 1]
                   ELSE passed
      /\ counted' = [counted EXCEPT ![key] = @ \cup {u}]
      /\ gate' = [op |-> op, user |-> u, key |-> key, ok |-> w.callFn,
                  live |-> key \in DOMAIN lim /\ ~expired(now, lim[key]),
                  prior |-> passed[u][kind], n |-> gate.n + 1,
                  ticked |-> FALSE]
      /\ UNCHANGED <<now, storage, call, sends, failures,
                     rlVars, cbVars, retryVars, pageVars>>

\* time passes between the calls of SpecKeys; gate.ticked: the clock has
\* advanced since it was last read
AdvanceKeys(d) ==
  /\ now + d <= MaxKeyTime
  /\ now' = now + d
  /\ gate' = [gate EXCEPT !.ticked = TRUE]
  /\ UNCHANGED <<sendVars, rlVars, cbVars, retryVars, passed, counted, pageVars>>

(***************************************************************************)
(* AuthProvider (AuthContext.tsx) and the response interceptor (api.ts)    *)
(***************************************************************************)
LoginUrl == "/auth/login"
ProfileUrl == "/auth/profile"
SendUrl == "/send/single-document"
DepartmentsUrl == "/admin/departments"
\* what the backend answers in SpecAuth
AuthStatuses == {200, 401, 500}
NoSession == [token |-> "none", user |-> "none"]

\* the interceptor without its own `error.response?.status === 401` block:
\* only the handler it picked clears the session
interceptByHandlerOnly(st, url, status, wa) ==
  [storage |-> IF status = 401 /\ ~(url = SendUrl /\ wa) THEN NoSession ELSE st,
   redirect |-> FALSE]

\* the response interceptor for an error answer `status` to a request to
\* `url`; wa: error.message includes 'WhatsApp'. handleWhatsAppError (urls
\* with '/send/') returns a WhatsAppAPIError for such a message and calls
\* handleApiError otherwise, whose case 401 removes token and user; the
\* interceptor then removes them itself, and sets window.location.href, for a
\* 401 from a url without '/auth/login'
intercept(st, url, status, wa) ==
  LET byHandler == status = 401 /\ ~(url = SendUrl /\ wa)
      byInterceptor == status = 401 /\ url # LoginUrl
  IN  [storage |-> IF byHandler \/ byInterceptor THEN NoSession ELSE st,
       redirect |-> byInterceptor]

\* the last 401 answer handled; cleared: neither token nor user was stored
\* after it
NoResponse == [url |-> "none", status |-> 0, wa |-> FALSE,
               cleared |-> FALSE, redirect |-> FALSE]

\* a page that has just been loaded: AuthProvider is mounted, its effect has
\* not run, nothing is in flight. send: the attempt of the send in progress,
\* wait: the delay of its pending timer, waits: the timers set so far
NoAuth == [init |-> "start", profileToken |-> "none", login |-> "none",
           send |-> 0, wait |-> 0, waits |-> 0, redirecting |-> FALSE,
           last |-> NoResponse]

InitAuth == auth = NoAuth

\* the effect of AuthProvider, initializeAuth, up to `await
\* authAPI.getProfile()`: the request interceptor attaches the stored token
InitializeAuth ==
  /\ auth.init = "start"
  /\ auth' = IF storage.token # "none" /\ storage.user # "none"
               THEN [auth EXCEPT !.init = "fetching",
                                 !.profileToken = storage.token]
               ELSE [auth EXCEPT !.init = "done"]
  /\ UNCHANGED <<now, rlVars, cbVars, sendVars, retryVars, keyVars, formVars>>

\* the profile request is answered: with 200 the user of the token it was
\* made with is stored under 'user'; otherwise the interceptor handles the
\* error and initializeAuth catches it
ProfileResponse(status) ==
  LET i == intercept(storage, ProfileUrl, status, FALSE)
      after == IF status = 200
                 THEN [storage EXCEPT !.user = auth.profileToken]
                 ELSE i.storage
  IN  /\ auth.init = "fetching"
      /\ storage' = after
      /\ auth' = [auth EXCEPT
                    !.init = "done", !.profileToken = "none",
                    !.redirecting = @ \/ (status # 200 /\ i.redirect),
                    !.last = IF status # 401 THEN @
                             ELSE [url |-> ProfileUrl, status |-> status,
                                   wa |-> FALSE, cleared |-> after = NoSession,
                                   redirect |-> i.redirect]]
      /\ UNCHANGED <<now, msgLimits, fileLimits, call, sends, failures,
                     rlVars, cbVars, retryVars, keyVars, formVars>>

\* AuthContext.login(data) for account u up to `await authAPI.login(data)`
LoginCall(u) ==
  /\ auth.login = "none"
  /\ auth' = [auth EXCEPT !.login = u]
  /\ UNCHANGED <<now, rlVars, cbVars, sendVars, retryVars, keyVars, formVars>>

\* the login request is answered: with 200 the token and the user of the
\* response are stored; otherwise the interceptor handles the error
LoginResponse(status) ==
  LET i == intercept(storage, LoginUrl, status, FALSE)
      after == IF status = 200
                 THEN [token |-> auth.login, user |-> auth.login]
                 ELSE i.storage
  IN  /\ auth.login # "none"
      /\ storage' = after
      /\ auth' = [auth EXCEPT
                    !.login = "none",
                    !.last = IF status # 401 THEN @
                             ELSE [url |-> LoginUrl, status |-> status,
                                   wa |-> FALSE, cleared |-> after = NoSession,
                                   redirect |-> i.redirect]]
      /\ UNCHANGED <<now, msgLimits, fileLimits, call, sends, failures,
                     rlVars, cbVars, retryVars, keyVars, formVars>>

(***************************************************************************)
(* Captcha (components) and Login.handleSubmit (pages/Login.tsx)           *)
(***************************************************************************)
\* `const chars = 'ABCDEFGHIJKLMNOPQRSTUVWXYZ0123456789'`
chars ==
  <<"A", "B", "C", "D", "E", "F", "G", "H", "I", "J", "K", "L", "M",
    "N", "O", "P", "Q", "R", "S", "T", "U", "V", "W", "X", "Y", "Z",
    "0", "1", "2", "3", "4", "5", "6", "7", "8", "9">>
lowerCase ==
  <<"a", "b", "c", "d", "e", "f", "g", "h", "i", "j", "k", "l", "m",
    "n", "o", "p", "q", "r", "s", "t", "u", "v", "w", "x", "y", "z">>

\* the values Math.floor(Math.random() * chars.length) takes in SpecForm:
\* the first and the last index of chars
RandomIndexes == {0, Len(chars) - 1}
\* the characters a keystroke may add to the input: a lower-case letter and
\* a digit
InputChars == {"a", "9"}

\* chars.charAt(i), i counted from 0
charAt(i) == IF i >= 0 /\ i < Len(chars) THEN <<chars[i + 1]>> ELSE <<>>

\* generateCaptcha with a loop that starts at i = 1: four characters
RECURSIVE generateCaptchaShort(_)
generateCaptchaShort(rs) ==
  IF Len(rs) <= 1 THEN <<>>
  ELSE charAt(Head(rs)) \o generateCaptchaShort(Tail(rs))

\* generateCaptcha: rs holds the random index of each round of the loop
RECURSIVE generateCaptcha(_)
generateCaptcha(rs) ==
  IF rs = <<>> THEN <<>>
  ELSE charAt(Head(rs)) \o generateCaptcha(Tail(rs))

\* String.prototype.toUpperCase on the characters of the model
toUpperCase(str) ==
  [i \in 1..Len(str) |->
     IF \E j \in 1..Len(lowerCase) : lowerCase[j] = str[i]
       THEN chars[CHOOSE j \in 1..Len(lowerCase) : lowerCase[j] = str[i]]
       ELSE str[i]]

\* isValidInput with the comparison of the lengths left out and the input
\* compared with the code cut to the input's length
isValidInputPrefix(userInput, captchaCode) ==
  /\ Len(userInput) <= Len(captchaCode)
  /\ toUpperCase(userInput) = SubSeq(toUpperCase(captchaCode), 1, Len(userInput))

\* isValidInput with `===` on the strings as typed, without toUpperCase
isValidInputExact(userInput, captchaCode) ==
  userInput = captchaCode /\ Len(userInput) = Len(captchaCode)

\* `userInput.toUpperCase() === captchaCode.toUpperCase() &&
\*  userInput.length === captchaCode.length`
isValidInput(userInput, captchaCode) ==
  /\ toUpperCase(userInput) = toUpperCase(captchaCode)
  /\ Len(userInput) = Len(captchaCode)

\* The page is rendered by a root of react-dom's createRoot (the entry
\* module that mounts <App /> is not part of src). A render leaves its
\* useEffect effects to a later task; the state updates of effects, and of
\* code that runs after an `await`, are queued and rendered in a later task
\* again; the updates of a click, keystroke or submit are rendered in the
\* task of the event, which first runs the effects still due and, after the
\* render, the effects of that render.

\* the values of the query parameter `role` that Login reads into
\* formData.role: the three roles and any other string (no parameter gives
\* ADMIN)
Roles == {"ADMIN", "CLERK", "SECTION", "GUEST"}
\* the roles handleSubmit navigates for after a login
NavigatingRoles == {"ADMIN", "CLERK", "SECTION"}

\* the state updates that no render has applied yet: those of the effects
\* (code: a setCaptchaCode of the mount effect; valid: the setIsValid,
\* setError and onVerify = setCaptchaValid of the validation effect) and
\* those of handleSubmit after `await login` (login). on: there are such
\* updates; the values are those the next render will show
NoDeferred == [on |-> FALSE, code |-> FALSE, captchaCode |-> <<>>,
               valid |-> FALSE, isValid |-> FALSE, captchaValid |-> FALSE,
               error |-> FALSE, login |-> FALSE, loginError |-> "",
               navigated |-> FALSE]

\* handleRefresh without `setUserInput('')`
handleRefreshKeepingInput(f, code) ==
  LET d == f.deferred
  IN  [f EXCEPT !.captchaCode = code, !.error = FALSE, !.isValid = FALSE,
                !.deferred = [d EXCEPT
                                !.captchaCode = IF d.code THEN code ELSE @,
                                !.isValid = FALSE, !.error = FALSE]]

\* Captcha.handleRefresh: setCaptchaCode(generateCaptcha()),
\* setUserInput(''), setError(''), setIsValid(false). The click is rendered
\* at once; the updates come after those a render has still to apply, which
\* they replace
handleRefresh(f, code) ==
  LET d == f.deferred
  IN  [f EXCEPT !.captchaCode = code, !.userInput = <<>>, !.error = FALSE,
                !.isValid = FALSE,
                !.deferred = [d EXCEPT
                                !.captchaCode = IF d.code THEN code ELSE @,
                                !.isValid = FALSE, !.error = FALSE]]

\* Captcha.handleInputChange: setUserInput(e.target.value)
handleInputChange(f, value) == [f EXCEPT !.userInput = value]

\* handleSubmit without the test of captchaValid
handleSubmitUnchecked(f, role, department) ==
  IF role = "SECTION" /\ ~department
    THEN [f EXCEPT !.loading = FALSE, !.loginError = "section",
                   !.submit = "noSection"]
    ELSE [f EXCEPT !.loading = TRUE, !.loginError = "",
                   !.submit = "called", !.loginPending = TRUE,
                   !.role = role]

\* Login.handleSubmit up to `await login(formData)`, reading the captchaValid
\* of the last render; role: formData.role; department: one is selected
handleSubmit(f, role, department) ==
  IF ~f.captchaValid
    THEN [f EXCEPT !.loginError = "captcha", !.submit = "refused"]
  ELSE IF role = "SECTION" /\ ~department
    THEN [f EXCEPT !.loading = FALSE, !.loginError = "section",
                   !.submit = "noSection"]
  ELSE [f EXCEPT !.loading = TRUE, !.loginError = "",
                 !.submit = "called", !.loginPending = TRUE,
                 !.role = role]

\* the Login page after its first render: the useState initial values, the
\* effects of the first render not yet run. captchaCode, userInput, isValid,
\* error, captchaValid, loading, loginError: the values of the last render;
\* pending: the effects that are due; reported: the last argument of
\* onVerify; submit, validAtSubmit: the outcome of the last handleSubmit and
\* captchaValid when it ran; role: formData.role of the login awaited
NoForm == [pending |-> "mount", captchaCode |-> <<>>, userInput |-> <<>>,
           isValid |-> FALSE, error |-> FALSE, reported |-> "none",
           captchaValid |-> FALSE, loading |-> FALSE, loginError |-> "",
           submit |-> "none", validAtSubmit |-> FALSE, loginPending |-> FALSE,
           role |-> "", navigated |-> FALSE, evt |-> "render", same |-> FALSE,
           deferred |-> NoDeferred, departments |-> "none"]

InitForm == form = NoForm

\* the dependencies of the validation effect that change: onVerify is
\* Login's setCaptchaValid, the same function in every render
effectDeps(f) == <<f.userInput, f.captchaCode>>

\* what the last render shows
shown(f) == <<f.captchaCode, f.userInput, f.isValid, f.error, f.captchaValid,
              f.loading, f.loginError>>

\* the effects that are due run, in the order of their declaration, on the
\* values of the render they belong to (shown); f: the state their updates
\* are queued in, behind those already queued. The mount effect (first
\* render only) queues setCaptchaCode(code); the validation effect calls
\* onVerify(isValidInput) and queues setIsValid, Login's setCaptchaValid and
\* setError; Login's mount effect calls loadDepartments, which sends
\* GET /admin/departments. No render applies the updates here
runEffects(shown_, f, code) ==
  LET v == isValidInput(shown_.userInput, shown_.captchaCode)
      e == shown_.userInput # <<>> /\ ~v
      mount == shown_.pending = "mount"
      d == f.deferred
  IN  IF shown_.pending = "none" THEN f
      ELSE [f EXCEPT
              !.reported = IF v THEN "true" ELSE "false",
              !.pending = "none",
              !.departments = IF mount THEN "pending" ELSE @,
              !.deferred = [d EXCEPT
                              !.on = TRUE,
                              !.code = @ \/ mount,
                              !.captchaCode = IF mount THEN code ELSE @,
                              !.valid = TRUE,
                              !.isValid = v,
                              !.captchaValid = v,
                              !.error = e]]

\* a render of the queued updates: the validation effect is due when
\* userInput or captchaCode has changed, unless the page has been left
render(f) ==
  LET d == f.deferred
      g == [f EXCEPT
              !.captchaCode = IF d.code THEN d.captchaCode ELSE @,
              !.isValid = IF d.valid THEN d.isValid ELSE @,
              !.captchaValid = IF d.valid THEN d.captchaValid ELSE @,
              !.error = IF d.valid THEN d.error ELSE @,
              !.loading = IF d.login THEN FALSE ELSE @,
              !.loginError = IF d.login THEN d.loginError ELSE @,
              !.navigated = IF d.login THEN d.navigated ELSE @,
              !.deferred = NoDeferred]
  IN  [g EXCEPT !.pending = IF g.navigated THEN "none"
                            ELSE IF effectDeps(g) # effectDeps(f)
                              THEN "validate" ELSE @]

\* whether the event makes React render: always when the handler changes
\* what is shown; when every setState of the handler sets the value already
\* shown, React may drop the updates without a render (FALSE)
Flushes(f, h) == IF shown(h) = shown(f) THEN {TRUE, FALSE} ELSE {TRUE}

\* a click, keystroke or submit in state f: the handler has run (h holds
\* its updates); before React renders them it runs the effects still due
\* from the last render, on the values of that render (code: the mount
\* effect's), and queues their updates behind the handler's; the render
\* shows the updates of the handler only; when userInput or captchaCode has
\* changed, the validation effect of this render runs in the same task, on
\* the values shown, and its updates are queued too. The updates of the
\* effects wait for a later render (RenderDeferred)
discreteEvent(f, h, code, flush) ==
  LET g == runEffects(f, h, code)
      r == [g EXCEPT !.pending = "validate"]
  IN  IF ~flush THEN h
      ELSE IF effectDeps(g) # effectDeps(f) THEN runEffects(r, r, code)
      ELSE g

\* the task in which React runs the effects of the first render, no event
\* having come before it; rm holds the random indexes of the mount effect's
\* generateCaptcha. The render of their updates is a later task
MountEffects(rm) ==
  /\ form.pending = "mount"
  /\ form' = [runEffects(form, form, generateCaptcha(rm)) EXCEPT !.evt = "mount"]
  /\ UNCHANGED <<now, rlVars, cbVars, sendVars, retryVars, keyVars, authVars>>

\* the task in which React runs the validation effect after a render of
\* queued updates in which captchaCode had changed
ValidationEffect ==
  /\ form.pending = "validate"
  /\ form' = runEffects(form, form, form.captchaCode)
  /\ UNCHANGED <<now, rlVars, cbVars, sendVars, retryVars, keyVars, authVars>>

\* the user can act on the page: the input and the buttons are not
\* disabled (disabled = loading) and the page has not been left
Usable == ~form.loading /\ ~form.navigated

\* the task in which React renders the queued updates; the task of effects
\* that are due was scheduled before it and has run
RenderDeferred ==
  /\ form.deferred.on
  /\ form.pending = "none"
  /\ form' = render(form)
  /\ UNCHANGED <<now, rlVars, cbVars, sendVars, retryVars, keyVars, authVars>>

\* a keystroke in the input: e.target.value = value
InputChange(value, rm) ==
  LET h == [handleInputChange(form, value) EXCEPT
              !.evt = "input", !.same = FALSE]
  IN  /\ Usable
      /\ \E flush \in Flushes(form, h) :
            form' = discreteEvent(form, h, generateCaptcha(rm), flush)
      /\ UNCHANGED <<now, rlVars, cbVars, sendVars, retryVars, keyVars, authVars>>

\* a click on the refresh button; evt and same record the last event on the
\* Captcha (same: the click regenerated the code shown, the input empty)
Refresh(rs, rm) ==
  LET h == [handleRefresh(form, generateCaptcha(rs)) EXCEPT
              !.evt = "refresh",
              !.same = generateCaptcha(rs) = form.captchaCode
                         /\ form.userInput = <<>>]
  IN  /\ Usable
      /\ \E flush \in Flushes(form, h) :
            form' = discreteEvent(form, h, generateCaptcha(rm), flush)
      /\ UNCHANGED <<now, rlVars, cbVars, sendVars, retryVars, keyVars, authVars>>

\* the form is submitted with formData.role = role
Submit(role, department, rm) ==
  LET h == [handleSubmit(form, role, department) EXCEPT
              !.validAtSubmit = form.captchaValid]
  IN  /\ Usable
      /\ \E flush \in Flushes(form, h) :
            form' = discreteEvent(form, h, generateCaptcha(rm), flush)
      /\ UNCHANGED <<now, rlVars, cbVars, sendVars, retryVars, keyVars, authVars>>

\* `await login(formData)` settles, the POST to /auth/login being answered
\* status for account u: AuthContext.login stores token and user on 200 and
\* Login navigates when the role is ADMIN, CLERK or SECTION; otherwise the
\* response interceptor handles the error and Login's setError shows it;
\* setLoading(false) in both cases. The continuation runs outside an event:
\* its updates wait for the next render
LoginSettled(status, u) ==
  /\ form.loginPending
  /\ form' = [form EXCEPT
                !.loginPending = FALSE, !.role = "",
                !.deferred = [form.deferred EXCEPT
                                !.on = TRUE, !.login = TRUE,
                                !.loginError = IF status = 200
                                                 THEN form.loginError
                                                 ELSE "failed",
                                !.navigated = status = 200
                                                /\ form.role \in NavigatingRoles]]
  /\ storage' = IF status = 200
                  THEN [token |-> u, user |-> u]
                  ELSE intercept(storage, LoginUrl, status, FALSE).storage
  /\ UNCHANGED <<now, msgLimits, fileLimits, call, sends, failures,
                 rlVars, cbVars, retryVars, keyVars, authVars>>

\* the GET /admin/departments of loadDepartments is answered: setDepartments
\* on 200; otherwise the response interceptor handles the error, which for a
\* 401 removes token and user and sets window.location.href, and
\* loadDepartments logs it
DepartmentsResponse(status) ==
  LET i == intercept(storage, DepartmentsUrl, status, FALSE)
      after == IF status = 200 THEN storage ELSE i.storage
  IN  /\ form.departments = "pending"
      /\ form' = [form EXCEPT !.departments = "done"]
      /\ storage' = after
      /\ auth' = [auth EXCEPT
                    !.redirecting = @ \/ (status # 200 /\ i.redirect)]
      /\ UNCHANGED <<now, msgLimits, fileLimits, call, sends, failures,
                     rlVars, cbVars, retryVars, keyVars>>

\* a request of the page to any other endpoint (departmentAPI, sectionAPI,
\* the message logs, ...) is answered: the response interceptor serves every
\* request made through `api`
OtherResponse(status) ==
  LET i == intercept(storage, DepartmentsUrl, status, FALSE)
      after == IF status = 200 THEN storage ELSE i.storage
  IN  /\ storage' = after
      /\ auth' = [auth EXCEPT
                    !.redirecting = @ \/ (status # 200 /\ i.redirect),
                    !.last = IF status # 401 THEN @
                             ELSE [url |-> DepartmentsUrl, status |-> status,
                                   wa |-> FALSE, cleared |-> after = NoSession,
                                   redirect |-> i.redirect]]
      /\ UNCHANGED <<now, msgLimits, fileLimits, call, sends, failures,
                     rlVars, cbVars, retryVars, keyVars, formVars>>

\* a call messageAPI.sendSingleDocument: withRateLimit counts it in
\* messageRateLimiter under the key of the stored user and, when admitted,
\* retryWithBackoff makes its first api.post; a refused call throws and
\* makes no request. tc: the clock as cleanup() reads it, which may be one
\* unit before the read of isAllowed (now); the seconds of a refusal, for
\* which getRemainingTime reads the clock again, are not kept
SendRequest(tc) ==
  LET w == withRateLimit(messageConfig, msgLimits, messageKey(storage.user),
                         tc, now, now)
  IN  /\ auth.send = 0
      /\ tc \in SweepTimes(-1, now)
      /\ w.callFn => sends < MaxSends
      /\ sends' = IF w.callFn THEN sends + 1 ELSE sends
      /\ msgLimits' = w.limits
      /\ auth' = IF w.callFn THEN [auth EXCEPT !.send = 1] ELSE auth
      /\ UNCHANGED <<now, storage, fileLimits, call, failures,
                     rlVars, cbVars, retryVars, keyVars, formVars>>

\* the api.post of attempt auth.send is answered: the interceptor, then the
\* catch block of retryWithBackoff, which rethrows after the last attempt
\* and otherwise awaits setTimeout(delay); jitter: Math.random() * 1000
SendResponse(status, wa, jitter) ==
  LET i == intercept(storage, SendUrl, status, wa)
      after == IF status = 200 THEN storage ELSE i.storage
      r == retryWithBackoff(auth.send, singleMaxRetries, singleBaseDelay, jitter)
      waits == status # 200 /\ ~r.throw
  IN  /\ auth.send > 0 /\ auth.wait = 0
      /\ status = 200 => ~wa
      /\ waits => auth.waits < MaxAuthWaits
      /\ storage' = after
      /\ auth' = [auth EXCEPT
                    !.send = IF waits THEN @ ELSE 0,
                    !.wait = IF waits THEN r.delay ELSE 0,
                    !.waits = IF waits THEN @ + 1 ELSE @,
                    !.redirecting = @ \/ (status # 200 /\ i.redirect),
                    !.last = IF status # 401 THEN @
                             ELSE [url |-> SendUrl, status |-> status,
                                   wa |-> wa, cleared |-> after = NoSession,
                                   redirect |-> i.redirect]]
      /\ UNCHANGED <<now, msgLimits, fileLimits, call, sends, failures,
                     rlVars, cbVars, retryVars, keyVars, formVars>>

\* the timer of retryWithBackoff fires after auth.wait: the next attempt
\* posts again, with the token stored by then
SendBackoffElapsed ==
  /\ auth.wait > 0
  /\ now' = now + auth.wait
  /\ auth' = [auth EXCEPT !.send = @ + 1, !.wait = 0]
  /\ UNCHANGED <<rlVars, cbVars, sendVars, retryVars, keyVars, formVars>>

\* the navigation started by `window.location.href = '/login'` loads the
\* page: the module state of the old page is gone (requests and timers in
\* flight, the maps of the limiters), AuthProvider and the Login page are
\* mounted anew; localStorage stays. auth.last and auth.waits are history
PageLoad ==
  /\ auth.redirecting
  /\ auth' = [NoAuth EXCEPT !.last = auth.last, !.waits = auth.waits]
  /\ form' = NoForm
  /\ msgLimits' = [k \in {} |-> 0]
  /\ fileLimits' = [k \in {} |-> 0]
  /\ call' = NoSend
  /\ UNCHANGED <<now, storage, sends, failures, rlVars, cbVars, retryVars, keyVars>>

vars == <<now, limits, recent, winAdmits, run, rlLast,
          cb, pc, probe, cbEvt, trip, consec,
          storage, msgLimits, fileLimits, call, sends, failures, retry,
          passed, counted, gate, auth, form>>

Init == now = 0 /\ InitRL /\ InitCB /\ InitSend /\ InitRetry /\ InitKeys
        /\ InitAuth /\ InitForm

NextRL ==
  \/ Tick
  \/ \E key \in Keys, tc \in {now - 1, now} : CallIsAllowed(key, tc)
  \/ \E key \in Keys : CallGetters(key)

SpecRL == Init /\ [][NextRL]_vars

NextCB ==
  \/ Tick
  \/ \E c \in Slots : Execute(c)
  \/ \E c \in Slots : Succeed(c)
  \/ \E c \in Slots : Fail(c)

SpecCB == Init /\ [][NextCB]_vars

NextSeq ==
  \/ Tick
  \/ \E c \in Slots : ExecuteAlone(c)
  \/ \E c \in Slots : Succeed(c)
  \/ \E c \in Slots : Fail(c)

SpecSeq == Init /\ [][NextSeq]_vars

NextSend ==
  \/ \E d \in Steps : Advance(d)
  \/ \E op \in Ops, tc \in {now - 1, now}, tr \in ReadTimes(now) :
       SendCall(op, tc, tr)
  \/ \E status \in Statuses, jitter \in Jitters : Respond(status, jitter)
  \/ BackoffElapsed
  \/ PageLoad

SpecSend == Init /\ [][NextSend]_vars

NextRetry ==
  \/ \E f \in RetryFns, m \in 1..MaxRetriesBound, d \in BaseDelays : RetryStart(f, m, d)
  \/ RetryResolve
  \/ \E e \in Thrown, jitter \in Jitters : RetryReject(e, jitter)
  \/ RetryWake

SpecRetry == Init /\ [][NextRetry]_vars

NextKeys ==
  \/ \E u \in Accounts : Login(u)
  \/ Logout
  \/ \E op \in Ops, tc \in {now - 1, now} : KeyedSend(op, tc)
  \/ \E d \in Steps : AdvanceKeys(d)
  \/ InitializeAuth
  \/ \E status \in AuthStatuses : ProfileResponse(status)
  \/ PageLoad

SpecKeys == Init /\ [][NextKeys]_vars

NextAuth ==
  \/ InitializeAuth
  \/ \E status \in AuthStatuses : ProfileResponse(status)
  \/ \E u \in Accounts : LoginCall(u)
  \/ \E status \in AuthStatuses : LoginResponse(status)
  \/ Logout
  \/ \E tc \in {now - 1, now} : SendRequest(tc)
  \/ \E status \in AuthStatuses, wa \in BOOLEAN, jitter \in Jitters :
       SendResponse(status, wa, jitter)
  \/ SendBackoffElapsed
  \/ \E status \in AuthStatuses : OtherResponse(status)
  \/ PageLoad

SpecAuth == Init /\ [][NextAuth]_vars

\* the values the user can bring the input to with one keystroke: one more
\* character, up to maxLength, or the last one deleted
Keystrokes(input) ==
  {Append(input, c) : c \in IF Len(input) < maxLength THEN InputChars ELSE {}}
    \cup (IF input = <<>> THEN {} ELSE {SubSeq(input, 1, Len(input) - 1)})

\* the random indexes of one run of generateCaptcha: the same index in every
\* round of the loop, or the two in turn
RandomRuns ==
  {rs \in [1..codeLength -> RandomIndexes] :
     \/ \A i \in 1..codeLength : rs[i] = rs[1]
     \/ \A i \in 2..codeLength : rs[i] # rs[i - 1]}
\* those of the mount effect, drawn only while that effect is due
MountRuns == IF form.pending = "mount"
               THEN RandomRuns ELSE {[i \in 1..codeLength |-> 0]}

NextForm ==
  \/ \E rm \in RandomRuns : MountEffects(rm)
  \/ ValidationEffect
  \/ RenderDeferred
  \/ \E value \in Keystrokes(form.userInput), rm \in MountRuns :
       InputChange(value, rm)
  \/ \E rs \in RandomRuns, rm \in MountRuns : Refresh(rs, rm)
  \/ \E role \in Roles, department \in BOOLEAN, rm \in MountRuns :
       Submit(role, department, rm)
  \/ \E status \in AuthStatuses, u \in Accounts : LoginSettled(status, u)
  \/ \E status \in AuthStatuses : DepartmentsResponse(status)
  \/ PageLoad

SpecForm == Init /\ [][NextForm]_vars

(***************************************************************************)
(* Claims about the RateLimiter (checked under SpecRL)                     *)
(***************************************************************************)
RECURSIVE SumUpTo(_, _)
SumUpTo(f, n) == IF n < 0 THEN 0 ELSE f[n] + SumUpTo(f, n - 1)

\* admissions of key k at the times now - windowMs + 1 .. now
AdmitsInSlidingWindow(k) == SumUpTo(recent[k], windowMs - 1)

\* C1 as stated: in every sliding interval of length windowMs, at most
\* maxRequests isAllowed calls of one key return true.
C1_SlidingWindowBound ==
  \A k \in Keys : AdmitsInSlidingWindow(k) <= maxRequests

\* C1 amended: in each of the limiter's own fixed windows (from the call at
\* t0 that creates the key's entry up to resetTime = t0 + windowMs) at most
\* maxRequests isAllowed calls of the key return true, and a call that is
\* admitted without creating the entry lies inside that window.
C1_FixedWindowBound ==
  /\ \A k \in Keys : winAdmits[k] <= maxRequests
  /\ (rlLast.ok /\ ~rlLast.fresh) =>
        (rlLast.prevOpen >= 0 /\ rlLast.t <= rlLast.prevOpen + windowMs)

\* a full window: the key has had maxRequests admissions and was then refused
C1_Witness ==
  /\ rlLast.key \in Keys
  /\ ~rlLast.ok
  /\ winAdmits[rlLast.key] = maxRequests

\* C2: of the calls made for a key since it had no entry, all no later than
\* windowMs after the first, the first maxRequests return true and the
\* (maxRequests + 1)th returns false.
C2_FirstNThenReject ==
  (rlLast.key \in Keys /\ rlLast.idx <= maxRequests + 1
     /\ rlLast.t <= rlLast.t0 + windowMs)
    => (rlLast.ok <=> rlLast.idx <= maxRequests)

\* the (maxRequests + 1)th call, made exactly windowMs after the first
C2_Witness ==
  /\ rlLast.key \in Keys
  /\ rlLast.idx = maxRequests + 1
  /\ rlLast.t = rlLast.t0 + windowMs
  /\ ~rlLast.ok

\* C3 as stated: the first call of a key at a time t >= t0 + windowMs, t0
\* being the time its window was opened, returns true and leaves count = 1.
C3_ResetAtOrAfterWindow ==
  (rlLast.key \in Keys /\ rlLast.prevOpen >= 0
     /\ rlLast.t >= rlLast.prevOpen + windowMs
     /\ rlLast.prevT < rlLast.prevOpen + windowMs)
    => (rlLast.ok /\ rlLast.count = 1)

\* C3 amended: a call of a key at a time t > t0 + windowMs, t0 being the time
\* its latest window was opened, returns true and leaves count = 1, whatever
\* count the old window had reached.
C3_ResetAfterWindow ==
  (rlLast.key \in Keys /\ rlLast.prevOpen >= 0
     /\ rlLast.t > rlLast.prevOpen + windowMs)
    => (rlLast.ok /\ rlLast.count = 1 /\ rlLast.fresh
          /\ limits[rlLast.key] = [count |-> 1, resetTime |-> rlLast.t + windowMs])

\* a window that had reached count = maxRequests is replaced after it ended
C3_Witness ==
  /\ rlLast.key \in Keys
  /\ rlLast.prevOpen >= 0
  /\ rlLast.t > rlLast.prevOpen + windowMs
  /\ rlLast.prevAdmits = maxRequests
  /\ rlLast.ok
  /\ rlLast.count = 1

\* the key has an entry whose window has not expired
Live(k) == k \in DOMAIN limits /\ ~(now > limits[k].resetTime)

\* C18: getRemainingRequests for a key returns maxRequests when the key has no
\* entry or its window has expired, and otherwise max(0, maxRequests - a), a
\* being the admissions granted to the key in its current window: 1 after
\* maxRequests - 1 admissions and 0 after maxRequests.
C18_RemainingRequests ==
  \A k \in Keys :
    LET got == getRemainingRequests(rlConfig, limits, k, now)
        a == winAdmits[k]
    IN  /\ ~Live(k) => got = maxRequests
        /\ Live(k) => got = (IF maxRequests - a > 0 THEN maxRequests - a ELSE 0)
        /\ (Live(k) /\ a = maxRequests - 1) => got = 1
        /\ (Live(k) /\ a = maxRequests) => got = 0

\* one key has had maxRequests - 1 admissions and has 1 request left, the
\* other has had maxRequests and has 0 left at the last instant of its
\* window
C18_Witness ==
  /\ Live("k1") /\ winAdmits["k1"] = maxRequests - 1
  /\ getRemainingRequests(rlConfig, limits, "k1", now) = 1
  /\ Live("k2") /\ winAdmits["k2"] = maxRequests
  /\ limits["k2"].resetTime = now
  /\ getRemainingRequests(rlConfig, limits, "k2", now) = 0

\* C19 as stated: whenever isAllowed returns false for a key, getRemainingTime
\* for that key at the same instant is greater than 0 and at most windowMs,
\* and the wait withRateLimit reports, ceil(remainingTime / 1000), is at
\* least 1 second.
C19_RefusalHasPositiveWait ==
  (rlLast.key \in Keys /\ ~rlLast.ok /\ rlLast.t = now)
    => /\ getRemainingTime(limits, rlLast.key, now) > 0
       /\ getRemainingTime(limits, rlLast.key, now) <= windowMs
       /\ CeilSeconds(getRemainingTime(limits, rlLast.key, now)) >= 1

\* C20: an isAllowed call that returns false leaves the entry of the refused
\* key as it was (count and resetTime) and leaves every entry whose window
\* has not expired unchanged, so repeated refused calls neither extend the
\* window nor raise the count.
C20_RefusalLeavesEntries ==
  [][\A key \in Keys, tc \in {now - 1, now} :
       (CallIsAllowed(key, tc) /\ ~isAllowed(rlConfig, limits, key, tc, now).ok)
         => /\ key \in DOMAIN limits /\ key \in DOMAIN limits'
            /\ limits'[key] = limits[key]
            /\ \A k \in DOMAIN limits :
                 ~expired(now, limits[k])
                   => (k \in DOMAIN limits' /\ limits'[k] = limits[k])
            /\ DOMAIN limits' \subseteq DOMAIN limits]_vars

\* a key refused for the second time in one window, its count still
\* maxRequests, while the other key has an entry
C20_Witness ==
  /\ rlLast.key \in Keys
  /\ ~rlLast.ok
  /\ rlLast.idx = maxRequests + 2
  /\ rlLast.count = maxRequests
  /\ limits[rlLast.key].resetTime = rlLast.t0 + windowMs
  /\ DOMAIN limits = Keys

\* every entry of the map has a count between 1 and maxRequests
C27_CountInRange ==
  \A k \in DOMAIN limits :
    limits[k].count >= 1 /\ limits[k].count <= maxRequests

\* C27: in every state reached by isAllowed, getRemainingTime and
\* getRemainingRequests calls on any keys, every entry of the map has
\* 1 <= count <= maxRequests, and a call of the two getters leaves the map
\* as it was.
C27_CountBounds ==
  /\ []C27_CountInRange
  /\ [][\A key \in Keys : CallGetters(key) => limits' = limits]_vars

\* one key stands at count = maxRequests after a refusal, the other at 1
C27_Witness ==
  /\ DOMAIN limits = Keys
  /\ limits["k1"].count = maxRequests
  /\ limits["k2"].count = 1
  /\ rlLast.key = "k1"
  /\ ~rlLast.ok

(***************************************************************************)
(* Claims about the CircuitBreaker                                         *)
(***************************************************************************)
\* the last step was a call of execute (it invoked fn or threw at once)
CallEvt == cbEvt.kind \in {"invoke", "reject"}

\* C4 as stated (SpecCB): from the failure that leaves failureCount >=
\* threshold, the breaker is OPEN and no operation is started until more than
\* resetTimeout has elapsed since that failure, under every interleaving of
\* execute calls.
C4_OpenForResetTimeout ==
  (trip.t >= 0 /\ now - trip.t <= resetTimeout)
    => (cb.state = "OPEN" /\ ~trip.started)

\* C5 (SpecSeq): after threshold consecutive failed execute calls, each
\* completed before the next starts, the state is OPEN; and an execute call
\* made in state OPEN with now - lastFailureTime <= resetTimeout is rejected
\* without invoking its operation and leaves the breaker's fields unchanged.
C5_OpensAndRejects ==
  /\ (cbEvt.kind = "failure" /\ consec >= threshold) => cb.state = "OPEN"
  /\ (CallEvt /\ cbEvt.pre.state = "OPEN"
        /\ cbEvt.t - cbEvt.pre.lastFailureTime <= resetTimeout)
       => (cbEvt.kind = "reject" /\ cb = cbEvt.pre
             /\ pc[cbEvt.slot] = "idle")

\* threshold failures in a row opened the breaker and a call made exactly
\* resetTimeout after the last of them was rejected
C5_Witness ==
  /\ cbEvt.kind = "reject"
  /\ consec = threshold
  /\ cb.state = "OPEN"
  /\ cb.failureCount = threshold
  /\ cbEvt.t - cb.lastFailureTime = resetTimeout

\* C6 as stated (SpecCB): an execute call made in state OPEN at a time t with
\* t - lastFailureTime >= resetTimeout invokes its operation.
C6_ProbeAtOrAfterResetTimeout ==
  (CallEvt /\ cbEvt.pre.state = "OPEN"
     /\ cbEvt.t - cbEvt.pre.lastFailureTime >= resetTimeout)
    => cbEvt.kind = "invoke"

\* C6 amended (SpecCB): an execute call made in state OPEN at a time t with
\* t - lastFailureTime > resetTimeout invokes its operation and moves the
\* breaker to HALF_OPEN.
C6_ProbeAfterResetTimeout ==
  (CallEvt /\ cbEvt.pre.state = "OPEN"
     /\ cbEvt.t - cbEvt.pre.lastFailureTime > resetTimeout)
    => (cbEvt.kind = "invoke" /\ cbEvt.probe
          /\ pc[cbEvt.slot] = "running"
          /\ cb = [cbEvt.pre EXCEPT !.state = "HALF_OPEN"])

\* an OPEN breaker was probed one millisecond after resetTimeout had elapsed
C6_Witness ==
  /\ cbEvt.kind = "invoke"
  /\ cbEvt.pre.state = "OPEN"
  /\ cbEvt.t - cbEvt.pre.lastFailureTime = resetTimeout + 1
  /\ cb.state = "HALF_OPEN"

\* C7 as stated (SpecCB): when the operation of the call that moved the
\* breaker to HALF_OPEN succeeds, the breaker is CLOSED with failureCount 0;
\* when it fails, the breaker is OPEN with lastFailureTime the time of that
\* failure; under every schedule.
C7_ProbeOutcome ==
  /\ (cbEvt.kind = "success" /\ cbEvt.probe)
       => (cb.state = "CLOSED" /\ cb.failureCount = 0)
  /\ (cbEvt.kind = "failure" /\ cbEvt.probe)
       => (cb.state = "OPEN" /\ cb.lastFailureTime = cbEvt.t)

\* C8 as stated (SpecCB): while the breaker is HALF_OPEN and the operation of
\* the call that moved it there is pending, no other execute call invokes
\* its operation.
C8_SingleTrial ==
  ~(cbEvt.kind = "invoke" /\ ~cbEvt.probe
      /\ cbEvt.pre.state = "HALF_OPEN" /\ cbEvt.probePending)

\* C26 (SpecCB): under every interleaving of execute calls, the breaker is
\* OPEN or HALF_OPEN only if failureCount >= threshold, and CLOSED only if
\* failureCount < threshold.
C26_StateMatchesFailureCount ==
  /\ cb.state \in {"OPEN", "HALF_OPEN"} => cb.failureCount >= threshold
  /\ cb.state = "CLOSED" => cb.failureCount < threshold
  /\ cb.state \in {"CLOSED", "OPEN", "HALF_OPEN"}

\* an operation started before the breaker opened fails while the breaker is
\* HALF_OPEN and another operation is still pending: failureCount goes past
\* threshold and the breaker is OPEN again
C26_Witness ==
  /\ cbEvt.kind = "failure"
  /\ ~cbEvt.probe
  /\ cbEvt.pre.state = "HALF_OPEN"
  /\ cb.state = "OPEN"
  /\ cb.failureCount = threshold + 1
  /\ \E c \in Slots : pc[c] = "running"

(***************************************************************************)
(* Claims about the rate-limited send operations (checked under SpecSend)  *)
(***************************************************************************)
\* C9: when the limiter refuses a send call (single, bulk or bulk database
\* PDF), the wrapped function is not called: no FormData is built, no
\* request is made, and the call ends rejected with the rate-limit error.
C9_RefusedCallDoesNothing ==
  (call.op \in Ops /\ ~call.allowed)
    => /\ call.pc = "done"
       /\ call.result = "rateLimited"
       /\ call.fnCalls = 0
       /\ ~call.formData
       /\ call.requests = 0

\* the fourth sendBulkDocument call of a window was refused
C9_Witness ==
  /\ call.op = "bulk"
  /\ ~call.allowed
  /\ call.result = "rateLimited"
  /\ call.seconds > 0

\* C10 as stated: a send call whose first request is answered with a client
\* error (400, 401, 403, 404, 422) is not retried: it makes exactly one
\* request, and the error is what the call ends with.
C10_ClientErrorNotRetried ==
  (call.op \in Ops /\ call.firstClientError)
    => /\ call.requests = 1
       /\ call.pc = "done" => call.result = "rejected"

(***************************************************************************)
(* Claims about withRetry and retryWithBackoff (checked under SpecRetry)   *)
(***************************************************************************)
\* the error is one the spec says is never retried: an instance of one of the
\* four client-error classes, or one carrying an HTTP status in [400,500)
\* (its own `status` or the status of its `response`)
IsClientError(e) ==
  \/ e.class \in ClientErrorClasses
  \/ (e.status >= 400 /\ e.status < 500)
  \/ (e.response >= 400 /\ e.response < 500)

\* C11 as stated: when the first invocation of the operation given to
\* withRetry rejects with an AuthenticationError, AuthorizationError,
\* ValidationError or NotFoundError instance, or with an error carrying an
\* HTTP status in [400,500), the operation is invoked exactly once and
\* withRetry rejects at once, without a wait.
C11_ClientErrorRejectsAtOnce ==
  (retry.fn = "withRetry" /\ IsClientError(retry.first))
    => /\ retry.invoked = 1
       /\ retry.pc = "done"
       /\ retry.result = "rejected"
       /\ retry.waits = <<>>

\* the retryWithBackoff call has ended
BackoffDone == retry.fn = "retryWithBackoff" /\ retry.pc = "done"

\* a resolved call: fn was invoked once more than it failed, the last failure
\* being that of invocation lastFrom (0: none), and the value is that of the
\* last invocation
C12_KthInvocation ==
  (BackoffDone /\ retry.result = "resolved")
    => /\ retry.invoked \in 1..retry.maxRetries
       /\ retry.value = retry.invoked
       /\ retry.invoked = Len(retry.waits) + 1
       /\ retry.invoked = retry.lastFrom + 1

\* C12: when fn fails on its first k - 1 invocations and succeeds on the
\* k-th (1 <= k <= maxRetries), retryWithBackoff resolves with the value of
\* the k-th invocation, fn has been invoked exactly k times (one more than the
\* number of waits), and a call that has resolved invokes fn no more.
C12_ResolvesWithFirstSuccess ==
  /\ [](C12_KthInvocation)
  /\ [][retry.pc = "done" => retry' = retry]_vars

\* fn failed twice and succeeded on the third of four allowed invocations
C12_Witness ==
  /\ BackoffDone
  /\ retry.result = "resolved"
  /\ retry.maxRetries = 4
  /\ retry.invoked = 3
  /\ retry.lastFrom = 2
  /\ retry.value = 3

\* C13: when every invocation of fn fails, retryWithBackoff ends: fn has been
\* invoked exactly maxRetries times, the call rejects with the error of the
\* last invocation, and there was a wait after every failed attempt but the
\* last one.
C13_RejectsAfterMaxRetries ==
  /\ retry.fn = "retryWithBackoff"
       => (retry.invoked <= retry.maxRetries /\ retry.attempt = retry.invoked)
  /\ (BackoffDone /\ retry.result = "rejected")
       => /\ retry.invoked = retry.maxRetries
          /\ retry.lastFrom = retry.maxRetries
          /\ Len(retry.waits) = retry.maxRetries - 1
          /\ retry.delay = 0
  /\ (retry.fn = "retryWithBackoff" /\ retry.lastFrom = retry.maxRetries)
       => (BackoffDone /\ retry.result = "rejected")

\* three invocations of three failed, with two waits between them
C13_Witness ==
  /\ BackoffDone
  /\ retry.result = "rejected"
  /\ retry.maxRetries = 3
  /\ retry.invoked = 3
  /\ retry.lastFrom = 3
  /\ Len(retry.waits) = 2

\* C14: the wait after failed attempt a (a < maxRetries) of retryWithBackoff
\* is at least baseDelay * 2^(a-1) and less than baseDelay * 2^(a-1) + 1000
\* milliseconds.
C14_ExponentialDelay ==
  retry.fn = "retryWithBackoff"
    => /\ \A a \in 1..Len(retry.waits) :
            /\ retry.waits[a] >= retry.baseDelay * Pow2(a - 1)
            /\ retry.waits[a] < retry.baseDelay * Pow2(a - 1) + 1000
       /\ retry.pc = "waiting"
            => /\ retry.attempt < retry.maxRetries
               /\ retry.delay >= retry.baseDelay * Pow2(retry.attempt - 1)
               /\ retry.delay < retry.baseDelay * Pow2(retry.attempt - 1) + 1000

\* the third wait of a call with baseDelay 100 was 4 * 100 plus the largest
\* jitter
C14_Witness ==
  /\ retry.fn = "retryWithBackoff"
  /\ retry.baseDelay = 100
  /\ Len(retry.waits) = 3
  /\ retry.waits[3] = 400 + 999
  /\ retry.waits[1] = 100

(***************************************************************************)
(* Claims about the limiter keys (checked under SpecKeys)                  *)
(***************************************************************************)
\* C15 as stated: of the sendSingleDocument calls one user makes in one
\* limiter window at most 5 are admitted and the next is refused; calls made
\* by different users are counted under different keys; and calls made with
\* no stored user are counted under 'anonymous'.
C15_SingleQuotaPerUser ==
  /\ \A u \in Identities : passed[u]["single"] <= messageMaxRequests
  /\ (gate.op = "single" /\ gate.live /\ gate.prior = messageMaxRequests)
       => ~gate.ok
  /\ \A k \in AllKeys : Cardinality(counted[k]) <= 1
  /\ (gate.op = "single" /\ gate.user = "none") => gate.key[1] = "anonymous"

\* the state part of C16: at most 3 bulk calls of a user per window, the next
\* one refused, one key per user, and a bulk call refused only by a full
\* file-upload entry
C16_BulkQuota ==
  /\ \A u \in Identities : passed[u]["bulk"] <= fileUploadMaxRequests
  /\ (gate.op \in {"bulk", "bulkDb"} /\ gate.live
        /\ gate.prior = fileUploadMaxRequests) => ~gate.ok
  /\ \A u \in Identities : Cardinality(counted[fileUploadKey(u)]) <= 1
  /\ (gate.op \in {"bulk", "bulkDb"} /\ ~gate.ok)
       => (gate.key \in DOMAIN fileLimits
            /\ fileLimits[gate.key].count >= fileUploadMaxRequests)

\* C16 as stated: bulk sends are gated by one limiter entry per user, shared
\* by sendBulkDocument and sendBulkDatabasePDF, that admits at most 3 calls of
\* the user per 60-second window; and no step changes both the file-upload
\* limiter and the single-message limiter.
C16_BulkQuotaPerUser ==
  /\ []C16_BulkQuota
  /\ [][fileLimits' # fileLimits => msgLimits' = msgLimits]_vars
  /\ [][msgLimits' # msgLimits => fileLimits' = fileLimits]_vars

\* C17: an admitted sendSingleDocument call makes between 1 and 3 requests,
\* an admitted bulk send between 1 and 2; every request but the pending one
\* has failed, so a request follows only the failure of the one before; and
\* a call that resolves does so with its last request, the only one that
\* succeeded.
C17_AttemptsOfAdmittedSend ==
  (call.op \in Ops /\ call.allowed)
    => /\ call.requests >= 1
       /\ call.requests <= (IF call.op = "single" THEN 3 ELSE 2)
       /\ call.fnCalls = 1
       /\ call.requests = call.failed + (IF call.pc = "awaiting" THEN 1 ELSE
                                         IF call.result = "resolved" THEN 1 ELSE 0)
       /\ call.pc = "done" => call.result \in {"resolved", "rejected"}
       /\ call.result = "rejected" => call.failed = call.requests

\* a single send resolved with its third request, after two failures
C17_Witness ==
  /\ call.op = "single"
  /\ call.allowed
  /\ call.pc = "done"
  /\ call.result = "resolved"
  /\ call.requests = 3
  /\ call.failed = 2

\* the limiter map that gates the call in progress
LimitsOfCall == IF call.op = "single" THEN msgLimits ELSE fileLimits

\* C28: from the moment a send call is made until the next one, whatever
\* requests and waits the call goes through and however it ends, the count of
\* its key is the count before the call plus one if the call was admitted,
\* and the count before the call if it was refused.
C28_OneAdmissionPerSend ==
  call.op \in Ops
    => /\ call.key \in DOMAIN LimitsOfCall
       /\ LimitsOfCall[call.key].count =
            call.before + (IF call.allowed THEN 1 ELSE 0)
       /\ call.allowed <=> call.result # "rateLimited"

\* a single send was admitted as the second of its window, made three
\* requests and was rejected: the count is 2
C28_Witness ==
  /\ call.op = "single"
  /\ call.allowed
  /\ call.before = 1
  /\ call.requests = 3
  /\ call.result = "rejected"
  /\ msgLimits[call.key].count = 2

(***************************************************************************)
(* Claims about the stored session (checked under SpecAuth)                *)
(***************************************************************************)
\* C21: when a request to an endpoint other than the login endpoint is
\* answered 401, token and user are gone from local storage and the page is
\* sent to /login as part of handling that response, on whichever attempt of
\* a retried call the answer comes.
C21_UnauthorizedClearsSession ==
  (auth.last.status = 401 /\ auth.last.url # LoginUrl)
    => /\ auth.last.cleared
       /\ auth.last.redirect

\* the first request of a send was answered 401 with a WhatsApp error
\* message; the session is gone, the page is being sent to /login and the
\* timer before the second attempt of the retry loop is pending
C21_Witness ==
  /\ auth.last.status = 401
  /\ auth.last.url = SendUrl
  /\ auth.last.wa
  /\ auth.send = 1 /\ auth.wait = singleBaseDelay
  /\ storage = NoSession
  /\ auth.redirecting

\* C30 as stated: under every interleaving of initializeAuth with its
\* profile fetch, login, logout and 401 invalidation, local storage holds a
\* user only if it holds a token, and the user is the one produced for that
\* token.
C30_SessionConsistent ==
  storage.user # "none"
    => (storage.token # "none" /\ storage.user = storage.token)

(***************************************************************************)
(* Claims about the Captcha and the login form (checked under SpecForm)    *)
(***************************************************************************)
\* the characters of `chars`
CodeChars == {chars[i] : i \in 1..Len(chars)}

\* C22: once the validation effect has run for the input and the code
\* shown, the validity last passed to onVerify is true exactly when the
\* upper-cased input equals the code and has its length; so a proper prefix
\* of the code is reported invalid and the full code, in any letter case,
\* valid. The updates the effect has queued carry the same value, and once
\* they are rendered isValid and Login's captchaValid show it.
C22_ReportedValidity ==
  form.pending = "none"
    => LET expected == /\ toUpperCase(form.userInput) = form.captchaCode
                       /\ Len(form.userInput) = Len(form.captchaCode)
       IN  /\ form.reported = (IF expected THEN "true" ELSE "false")
           /\ form.deferred.valid
                => /\ form.deferred.isValid = expected
                   /\ form.deferred.captchaValid = expected
           /\ ~form.deferred.valid
                => /\ form.isValid = expected
                   /\ form.captchaValid = expected

\* the full code has been typed, a letter of it in lower case, and reported
\* valid
C22_Witness ==
  /\ form.pending = "none"
  /\ form.evt = "input"
  /\ form.reported = "true"
  /\ Len(form.userInput) = codeLength
  /\ \E i \in 1..Len(form.userInput) :
        form.userInput[i] = "a" /\ form.captchaCode[i] = "A"

\* C23 as stated: in every state of the widget, from its first render on,
\* the code has exactly 5 characters, each from A-Z0-9.
C23_CodeAlwaysFiveChars ==
  /\ Len(form.captchaCode) = codeLength
  /\ \A i \in 1..Len(form.captchaCode) : form.captchaCode[i] \in CodeChars

\* C23 amended: the code is the empty string from the first render until a
\* render shows the code set by the mount effect (or, before that, by a
\* refresh); from then on, after any number of refreshes, it has exactly 5
\* characters, each from A-Z0-9.
C23_CodeFiveCharsOnceMounted ==
  /\ form.pending = "mount" => form.captchaCode = <<>>
  /\ form.captchaCode = <<>> => (form.pending = "mount" \/ form.deferred.code)
  /\ form.captchaCode # <<>>
       => /\ Len(form.captchaCode) = codeLength
          /\ \A i \in 1..Len(form.captchaCode) : form.captchaCode[i] \in CodeChars

\* a refresh has generated a code with both the first and the last character
\* of chars in it
C23_Witness ==
  /\ form.evt = "refresh"
  /\ form.captchaCode = <<"A", "9", "A", "9", "A">>

\* C24: after a refresh, whatever the state it was clicked in and until the
\* next keystroke, the input is empty, the widget's validity is false and
\* the validity last passed to onVerify is false; also when the refresh
\* regenerated the code it replaced. The updates still queued keep isValid
\* false and set Login's captchaValid to false, which may show true until
\* they are rendered.
C24_RefreshResets ==
  form.evt = "refresh"
    => /\ form.userInput = <<>>
       /\ ~form.isValid
       /\ form.reported = "false"
       /\ form.deferred.valid
            => (~form.deferred.isValid /\ ~form.deferred.captchaValid)
       /\ (~form.deferred.valid /\ form.pending = "none") => ~form.captchaValid

\* a refresh with an empty input has regenerated the code shown while
\* Login's captchaValid showed true: onVerify(false) has been called and
\* captchaValid still shows true, the update waiting for its render
C24_Witness ==
  /\ form.evt = "refresh"
  /\ form.same
  /\ form.pending = "none"
  /\ form.captchaCode # <<>>
  /\ form.reported = "false"
  /\ form.captchaValid
  /\ form.deferred.valid

\* C25: handleSubmit calls the login API only if captchaValid is true when
\* it runs; otherwise it sets the CAPTCHA error, makes no call and does not
\* navigate.
C25_LoginOnlyWithCaptcha ==
  /\ form.submit = "called" => form.validAtSubmit
  /\ (form.loginPending \/ form.navigated \/ form.deferred.login)
       => form.submit = "called"
  /\ form.submit = "refused"
       => /\ ~form.validAtSubmit
          /\ form.loginError = "captcha"
          /\ ~form.loginPending /\ ~form.loading /\ ~form.navigated
          /\ ~form.deferred.login

\* the form was submitted with a proper prefix of the code typed and was
\* refused
C25_Witness ==
  /\ form.submit = "refused"
  /\ form.pending = "none"
  /\ Len(form.userInput) = codeLength - 1
  /\ form.loginError = "captcha"

\* C29 as stated: the Captcha never reports valid = true, and Login's
\* captchaValid is never true, unless the input has exactly 5 characters that
\* equal the displayed code case-insensitively, the states between the first
\* render and the generation of the code included.
C29_ValidOnlyForFullCode ==
  (form.reported = "true" \/ form.captchaValid)
    => /\ Len(form.userInput) = codeLength
       /\ toUpperCase(form.userInput) = toUpperCase(form.captchaCode)

====
